---- MODULE Spec2Model ----
(***************************************************************************)
(* A model of the blendshape transfer code of studiolibrary:               *)
(*   mutils/blendshape.py       Blendshape.save, validateAnimLayers,       *)
(*                              saveBlendshape, loadBlendshape,            *)
(*                              getBlendshapeParamList, createObjectData   *)
(*   studiolibrarymaya/blendshapeitem.py   BlendshapeItem.write            *)
(*   studiolibrarymaya/baseloadwidget.py   BaseLoadWidget                  *)
(* The host application (maya.cmds) is modelled by the part of its scene   *)
(* the code reads and writes: key times of animation curves, temporary     *)
(* nodes, the undo chunk, the files written, and the order of the calls.   *)
(***************************************************************************)
EXTENDS Integers, Sequences, FiniteSets, TLC

VARIABLES
    \* ---- Blendshape.save ----
    pc,             \* position in save
    bakeConnected,  \* argument
    fileType,       \* argument, as passed
    time,           \* parameter: None, or a pair of optional frames
    savePath,       \* argument: the value bound to the parameter "path" of save
    animLayers,     \* host: number of selected animation layers
    layerLocked,    \* host: lock state of the single selected layer
    duration,       \* host: mutils.getDurationFromNodes(objects)
    keys,           \* host: key times of every source curve <<object, attr>>
    connected,      \* host: source attributes driven by a connection
    start, end,     \* locals (optional frames)
    metadata,       \* startFrame / endFrame written by setMetadata
    exc,            \* pending or raised exception class ("" when none)
    msg,            \* which raise statement produced it
    calls,          \* the host calls made so far, in order
    chunk,          \* host undo queue: open chunk and what it would revert
    clipboard,      \* host key clipboard filled by copyKey
    idx,            \* index into objects of the loop at line 383
    attrs,          \* attributes of the current duplicate still to visit
    curAttr,        \* attribute whose dstCurve is being handled
    nodes,          \* temporary nodes now in the scene
    dstKeys,        \* key times of the curves of the duplicates
    animCurves,     \* curves recorded by setAnimCurve
    validCurves, deleteObjects,
    files,          \* files written, in order
    \* ---- loadBlendshape ----
    loadPc,         \* position in loadBlendshape
    path,           \* argument: the value bound to the parameter "path"
    spacing, startFrame, option, currentTime, showDialog,   \* arguments / locals
    hostTime,       \* host: maya.cmds.currentTime(query=True)
    isFirstAnim,
    loaded,         \* the anim.load calls made: path, startFrame, option
    loadExc,        \* exception raised by loadBlendshape ("" when none)
    \* ---- BlendshapeItem.write / saveBlendshape ----
    writePc,        \* position in write
    writePath, writeObjects, writeIconPath, comment,    \* arguments of write
    bound,          \* saveBlendshape's parameters as bound by the call
    copied,         \* files copied or moved by saveBlendshape
    fromObjectsArg, \* what Blendshape.fromObjects received
    saveLocation,   \* the path Blendshape.save received
    updatedMetadata,\* what updateMetadata received
    \* ---- BaseLoadWidget ----
    widgetPc,       \* life cycle of the widget and position in close
    mutilsImported, \* whether the import of lines 24-27 succeeded
    scriptJob,      \* self._scriptJob: None or the job created for the widget
    jobs,           \* host: the script jobs alive
    nextJob,        \* host: the next script job number
    validations,    \* number of selectionChanged callbacks delivered
    events,         \* what happened to the widget, in order
    \* ---- Blendshape.createObjectData ----
    dataPc,         \* position in createObjectData
    nodeType,       \* host: type of the node
    weightSize,     \* host: getAttr(name + ".weight", size=True)
    alias,          \* host: alias[i + 1] is the alias of weight[i]
    keyable,        \* host: listAttr(name, keyable=True)
    validAttrs,     \* attributes for which Attribute.isValid() holds
    noneAttrs,      \* attributes whose value() is None
    existing,       \* keys of self.attrs(name) before the call
    attrList,       \* the local attrs
    pos,            \* position of the loop at line 304
    dataAttrs,      \* keys of data["attrs"]
    written,        \* keys assigned at line 310
    warnings        \* attributes warned about at line 308

saveVars == <<pc, bakeConnected, fileType, time, savePath, animLayers, layerLocked,
              duration, keys, connected, start, end, metadata, exc, msg, calls,
              chunk, clipboard, idx, attrs, curAttr, nodes, dstKeys,
              animCurves, validCurves, deleteObjects, files>>

loadVars == <<loadPc, path, spacing, startFrame, option, currentTime, showDialog,
              hostTime, isFirstAnim, loaded, loadExc>>

writeVars == <<writePc, writePath, writeObjects, writeIconPath, comment, bound,
               copied, fromObjectsArg, saveLocation, updatedMetadata>>

widgetVars == <<widgetPc, mutilsImported, scriptJob, jobs, nextJob, validations,
                events>>

dataVars == <<dataPc, nodeType, weightSize, alias, keyable, validAttrs, noneAttrs,
              existing, attrList, pos, dataAttrs, written, warnings>>

vars == <<saveVars, loadVars, writeVars, widgetVars, dataVars>>

otherThanSave == <<loadVars, writeVars, widgetVars, dataVars>>
otherThanLoad == <<saveVars, writeVars, widgetVars, dataVars>>
otherThanWrite == <<saveVars, loadVars, widgetVars, dataVars>>
otherThanWidget == <<saveVars, loadVars, writeVars, dataVars>>
otherThanData == <<saveVars, loadVars, writeVars, widgetVars>>

----------------------------------------------------------------------------
(* Bounds of the model *)
MaxFrame == 2
MaxLayers == 2
MaxPaths == 2
MaxSpacing == 2
MaxObjects == 2
MaxJobs == 2
MaxEvents == 3
MaxWeights == 2
MaxKeyable == 2

(* Program constants *)
MIN_TIME_LIMIT == -10000
MAX_TIME_LIMIT == 100000
DEFAULT_FILE_TYPE == "mayaBinary"
BLEND_SHAPE_TYPE == "blendShape"
FIX_SAVE_ANIM_REFERENCE_LOCKED_ERROR == TRUE

(* Python's None and an optional value *)
None == <<>>
Some(x) == <<x>>
Val(o) == o[1]

Frames == 0..MaxFrame
OptFrames == {None} \cup {Some(f) : f \in Frames}
TimeArgs == {None} \cup (OptFrames \X OptFrames)
FileTypes == {"", "mayaBinary", "mayaAscii"}
(* mutils.getDurationFromNodes: negative, zero or positive *)
Durations == {-1, 0, 1}

(* The scene fixture: the objects of the transfer object, their node type  *)
(* and their animatable attributes.                                        *)
Objects == <<"Face", "Ctrl">>
NodeType(name) == IF name = "Face" THEN "blendShape" ELSE "transform"
WeightAlias(name) == <<"smile", "frown">>
Keyable(name) == <<"tx", "ty", "translate">>

Range(s) == {s[i] : i \in 1..Len(s)}

(* Python values: a path string is the sequence of its segments, a list of *)
(* object names the sequence of the names.                                 *)
IsString(v) == v # <<>> /\ \A i \in 1..Len(v) : v[i] \notin Range(Objects)

(* getBlendshapeParamList: one aliasAttr query per index 0..size-1,        *)
(* appended in index order. aliases is the host's table, 1-based here:     *)
(* aliases[i+1] is the alias of weight[i].                                 *)
RECURSIVE ParamListFrom(_, _, _)
ParamListFrom(i, size, aliases) ==
    IF i >= size THEN <<>>
    ELSE <<aliases[i + 1]>> \o ParamListFrom(i + 1, size, aliases)

getBlendshapeParamListFromOne(size, aliases) == ParamListFrom(1, size, aliases)

getBlendshapeParamList(size, aliases) == ParamListFrom(0, size, aliases)

(* Lines 396-402: the attributes of the duplicate that the loop visits *)
DuplicateAttrs(name) ==
    (IF NodeType(name) = BLEND_SHAPE_TYPE
        THEN Range(getBlendshapeParamList(Len(WeightAlias(name)), WeightAlias(name)))
        ELSE Range(Keyable(name)))
    \ {"translate", "rotate", "scale"}

(* The attributes that can carry keys in the scene; "frown" and "ty" never do *)
Curves == {<<"Face", "smile">>, <<"Ctrl", "tx">>}
CurvesOf(name) == {c \in Curves : c[1] = name}

----------------------------------------------------------------------------
(* validateAnimLayers, lines 103-124: the message of the raise statement   *)
(* that fires, "" when the function returns.                               *)
validateAnimLayers(n, locked) ==
    IF n > 1 THEN "MoreThanOneLayer"
    ELSE IF n = 1 /\ locked THEN "LayerLocked"
    ELSE ""

RangeErrorStrict(s, e) ==
    IF s = None \/ e = None THEN "NoRange"
    ELSE IF Val(s) > Val(e) THEN "StartGEEnd"
    ELSE ""

(* Lines 353-359: the frame range checks *)
RangeError(s, e) ==
    IF s = None \/ e = None THEN "NoRange"
    ELSE IF Val(s) >= Val(e) THEN "StartGEEnd"
    ELSE ""

(* Lines 362-365 *)
DurationError(d) == IF d <= 0 THEN "NoAnimation" ELSE ""

SaveValidationRangeFirst(n, locked, s, e, d) ==
    IF RangeError(s, e) # "" THEN RangeError(s, e)
    ELSE IF validateAnimLayers(n, locked) # "" THEN validateAnimLayers(n, locked)
    ELSE DurationError(d)

(* Lines 349-365 in the order the code runs them *)
SaveValidation(n, locked, s, e, d) ==
    IF validateAnimLayers(n, locked) # "" THEN validateAnimLayers(n, locked)
    ELSE IF RangeError(s, e) # "" THEN RangeError(s, e)
    ELSE DurationError(d)

EffectiveFileTypeAsPassed(ft) == ft

(* Line 343 *)
EffectiveFileType(ft) == IF ft = "" THEN DEFAULT_FILE_TYPE ELSE ft

(* Lines 435-437 *)
FileName(ft) == IF ft = "mayaBinary" THEN "animation.mb" ELSE "animation.ma"

CopiedKeysUpperBound(ks, s, e) == {t \in ks : s <= t /\ t <= e}

(* Line 384, maya.cmds.copyKey(name, time=(s, e), includeUpperBound=False, *)
(* option="keys"): the keys of one curve with s <= t < e                   *)
CopiedKeys(ks, s, e) == {t \in ks : s <= t /\ t < e}

(* maya.cmds.cutKey(curve, time=(lo, hi)): both ends included *)
cutKey(ks, lo, hi) == {t \in ks : ~(lo <= t /\ t <= hi)}

(* maya.cmds.keyframe(curve, query=True, time=(s, e), keyframeCount=True) *)
KeyframeCount(ks, s, e) == Cardinality({t \in ks : s <= t /\ t <= e})

(* mutils.bakeConnected(objects, time=(s, e)): every connected attribute   *)
(* gets a key on each frame of the range                                   *)
BakedKeys(ks, conn, s, e) ==
    [c \in Curves |-> IF c \in conn THEN ks[c] \cup (s..e) ELSE ks[c]]

DupNode(name) == <<"CURVE", name>>
(* A further node maya.cmds.duplicate may return besides transform[0]      *)
(* (comment of line 387)                                                   *)
ExtraNode(name) == <<"CURVE", name, "duplicate", "extra">>
(* Line 388: what duplicate can create for an object: the "CURVE" node,    *)
(* and for a blendshape possibly one more node                             *)
Duplicated(name) ==
    {{DupNode(name)}} \cup
    (IF NodeType(name) = BLEND_SHAPE_TYPE
     THEN {{DupNode(name), ExtraNode(name)}} ELSE {})
CurveNode(name, attr) == <<"CURVE", name, attr>>

(* The other operations, not called *)
IdleLoad ==
    /\ loadPc = "idle" /\ path = <<>> /\ spacing = 1 /\ startFrame = None
    /\ option = None /\ currentTime = FALSE /\ showDialog = FALSE
    /\ hostTime = 0 /\ isFirstAnim = TRUE /\ loaded = <<>> /\ loadExc = ""

IdleWrite ==
    /\ writePc = "idle" /\ writePath = <<>> /\ writeObjects = <<>>
    /\ writeIconPath = "" /\ comment = "" /\ bound = None /\ copied = <<>>
    /\ fromObjectsArg = None /\ saveLocation = None /\ updatedMetadata = None

IdleWidget ==
    /\ widgetPc = "idle" /\ mutilsImported = TRUE /\ scriptJob = None /\ jobs = {}
    /\ nextJob = 1
    /\ validations = 0 /\ events = <<>>

IdleData ==
    /\ dataPc = "idle" /\ nodeType = "" /\ weightSize = 0 /\ alias = <<>>
    /\ keyable = <<>> /\ validAttrs = {} /\ noneAttrs = {} /\ existing = {}
    /\ attrList = <<>> /\ pos = 1 /\ dataAttrs = {} /\ written = {}
    /\ warnings = <<>>

SaveNotCalled ==
    /\ pc = "idle" /\ bakeConnected = FALSE /\ fileType = "" /\ time = None
    /\ savePath = <<>>
    /\ start = None /\ end = None /\ metadata = None
    /\ exc = "" /\ msg = "" /\ calls = <<>> /\ chunk = None
    /\ clipboard = [c \in Curves |-> {}] /\ idx = 1 /\ attrs = {}
    /\ curAttr = "" /\ nodes = {} /\ dstKeys = [c \in Curves |-> {}]
    /\ animCurves = {} /\ validCurves = <<>> /\ deleteObjects = <<>>
    /\ files = <<>>

IdleSave ==
    /\ SaveNotCalled
    /\ animLayers = 0 /\ layerLocked = FALSE /\ duration = 0
    /\ connected = {} /\ keys = [c \in Curves |-> {}]

InitSave ==
    /\ pc = "start"
    /\ bakeConnected \in BOOLEAN
    /\ fileType \in FileTypes
    /\ time \in TimeArgs
    /\ savePath = <<"lib", "item">>
    /\ animLayers \in 0..MaxLayers
    /\ layerLocked \in BOOLEAN
    /\ (animLayers # 1 => layerLocked = FALSE)
    /\ duration \in Durations
    /\ connected \in SUBSET Curves
    /\ keys \in [Curves -> SUBSET Frames]
    /\ \A c \in connected : keys[c] = {}
    /\ start = None /\ end = None
    /\ metadata = None
    /\ exc = "" /\ msg = ""
    /\ calls = <<>>
    /\ chunk = None
    /\ clipboard = [c \in Curves |-> {}]
    /\ idx = 1
    /\ attrs = {}
    /\ curAttr = ""
    /\ nodes = {}
    /\ dstKeys = [c \in Curves |-> {}]
    /\ animCurves = {}
    /\ validCurves = <<>> /\ deleteObjects = <<>>
    /\ files = <<>>

sceneVars == <<keys, connected, nodes, dstKeys, clipboard, chunk>>
argVars == <<bakeConnected, fileType, time, savePath, animLayers, layerLocked,
             duration>>
bookVars == <<validCurves, deleteObjects, animCurves, attrs, curAttr, idx>>

ThrowPastFinally(call) ==
    /\ exc' = "HostError"
    /\ msg' = call
    /\ calls' = Append(calls, call)
    /\ pc' = "raised"

(* An exception inside the try block: control goes to the finally block. *)
(* Throw is the failure of a call the trace records; Raise the failure of *)
(* a call it does not record.                                             *)
Throw(call) ==
    /\ exc' = "HostError"
    /\ msg' = call
    /\ calls' = Append(calls, call)
    /\ pc' = "finally"

Raise(call) ==
    /\ exc' = "HostError"
    /\ msg' = call
    /\ calls' = calls
    /\ pc' = "finally"

(* An exception outside the try block (before it, or in the finally block) *)
(* leaves save at once and replaces a pending one.                         *)
Propagate(call) ==
    /\ exc' = "HostError"
    /\ msg' = call
    /\ pc' = "raised"

(* Lines 340-376: resolve the range (line 346 assigns the selected range  *)
(* to time when none was passed), validate, record the metadata. The host *)
(* queries on the way (selectedObjectsFrameRange 346, mel.eval 109,       *)
(* animLayer 120, getDurationFromNodes 362) can raise; nothing catches it. *)
Begin ==
    /\ pc = "start"
    /\ \/ /\ time = None
          /\ Propagate("selectedObjectsFrameRange")
          /\ UNCHANGED <<time, start, end, metadata>>
       \/ \E r \in (IF time = None THEN OptFrames \X OptFrames ELSE {time}) :
            LET m == SaveValidation(animLayers, layerLocked, r[1], r[2], duration) IN
            /\ time' = r
            /\ \/ /\ \/ Propagate("mel.eval")
                     \/ animLayers = 1 /\ Propagate("animLayer")
                     \/ /\ validateAnimLayers(animLayers, layerLocked) = ""
                        /\ RangeError(r[1], r[2]) = ""
                        /\ Propagate("getDurationFromNodes")
                  /\ start' = r[1] /\ end' = r[2]
                  /\ UNCHANGED metadata
               \/ IF m # ""
                  THEN /\ exc' = "AnimationTransferError"
                       /\ msg' = m
                       /\ start' = r[1] /\ end' = r[2]
                       /\ pc' = "raised"
                       /\ UNCHANGED metadata
                  ELSE /\ metadata' = Some([startFrame |-> Val(r[1]),
                                            endFrame |-> Val(r[2])])
                       /\ start' = r[1]
                       /\ end' = Some(Val(r[2]) + 1)
                       /\ pc' = IF bakeConnected THEN "openChunk" ELSE "loop"
                       /\ UNCHANGED <<exc, msg>>
    /\ UNCHANGED otherThanSave
    /\ UNCHANGED <<bakeConnected, fileType, savePath, animLayers, layerLocked,
                   duration, sceneVars, bookVars, calls, files>>

OpenChunkBakeSkipped ==
    /\ pc = "openChunk"
    /\ chunk' = Some([open |-> TRUE, keys |-> keys, nodes |-> nodes])
    /\ calls' = Append(calls, "openChunk")
    /\ pc' = "loop"
    /\ UNCHANGED otherThanSave
    /\ UNCHANGED <<argVars, keys, connected, nodes, dstKeys, clipboard, bookVars,
                   start, end, metadata, exc, msg, files>>

(* Line 380: the first statement of the try block; when it raises, no    *)
(* chunk was opened by this call and the finally block still runs         *)
OpenChunk ==
    /\ pc = "openChunk"
    /\ \/ /\ chunk' = Some([open |-> TRUE, keys |-> keys, nodes |-> nodes])
          /\ calls' = Append(calls, "openChunk")
          /\ pc' = "bake"
          /\ UNCHANGED <<exc, msg>>
       \/ /\ Throw("openChunk")
          /\ UNCHANGED chunk
    /\ UNCHANGED otherThanSave
    /\ UNCHANGED <<argVars, keys, connected, nodes, dstKeys, clipboard, bookVars,
                   start, end, metadata, files>>

(* Line 381 *)
Bake ==
    /\ pc = "bake"
    /\ \/ /\ keys' = BakedKeys(keys, connected, Val(start), Val(end))
          /\ calls' = Append(calls, "bakeConnected")
          /\ pc' = "loop"
          /\ UNCHANGED <<exc, msg>>
       \/ /\ Throw("bakeConnected")
          /\ UNCHANGED keys
    /\ UNCHANGED otherThanSave
    /\ UNCHANGED <<argVars, connected, nodes, dstKeys, clipboard, chunk, bookVars,
                   start, end, metadata, files>>

(* Line 383: the loop over objects is exhausted *)
LoopDone ==
    /\ pc = "loop"
    /\ idx > Len(Objects)
    /\ pc' = "poseSave"
    /\ UNCHANGED otherThanSave
    /\ UNCHANGED <<argVars, sceneVars, bookVars, start, end, metadata, exc, msg,
                   calls, files>>

(* Line 384: copyKey of the next object; 0 curves copied skips the object *)
CopyKey ==
    /\ pc = "loop"
    /\ idx <= Len(Objects)
    /\ LET name == Objects[idx]
           clip == [c \in Curves |->
                      IF c \in CurvesOf(name)
                      THEN CopiedKeys(keys[c], Val(start), Val(end)) ELSE {}]
       IN \/ /\ clipboard' = clip
             /\ calls' = Append(calls, "copyKey")
             /\ IF \E c \in Curves : clip[c] # {}
                THEN pc' = "duplicate" /\ idx' = idx
                ELSE pc' = "loop" /\ idx' = idx + 1
             /\ UNCHANGED <<exc, msg>>
          \/ /\ Throw("copyKey")
             /\ UNCHANGED <<clipboard, idx>>
    /\ UNCHANGED otherThanSave
    /\ UNCHANGED <<argVars, keys, connected, nodes, dstKeys, chunk, validCurves,
                   deleteObjects, animCurves, attrs, curAttr, start, end,
                   metadata, files>>

(* Lines 388-393: duplicate the object as "CURVE" and remember            *)
(* transform[0], the first node returned. Between the duplicate and the   *)
(* append only disconnectAll can raise, and only with the feature flag of *)
(* line 83 off.                                                            *)
Duplicate ==
    /\ pc = "duplicate"
    /\ \/ /\ \E created \in Duplicated(Objects[idx]) : nodes' = nodes \cup created
          /\ deleteObjects' = Append(deleteObjects, DupNode(Objects[idx]))
          /\ calls' = Append(calls, "duplicate")
          /\ pc' = "paste"
          /\ UNCHANGED <<exc, msg>>
       \/ /\ ~FIX_SAVE_ANIM_REFERENCE_LOCKED_ERROR
          /\ \E created \in Duplicated(Objects[idx]) : nodes' = nodes \cup created
          /\ Throw("disconnectAll")
          /\ UNCHANGED deleteObjects
       \/ /\ Throw("duplicate")
          /\ UNCHANGED <<nodes, deleteObjects>>
    /\ UNCHANGED otherThanSave
    /\ UNCHANGED <<argVars, keys, connected, dstKeys, clipboard, chunk, validCurves,
                   animCurves, attrs, curAttr, idx, start, end, metadata, files>>

(* Line 394: paste the clipboard on the duplicate (one new curve per       *)
(* copied curve, at the clipboard's times)                                 *)
PasteKey ==
    /\ pc = "paste"
    /\ \/ /\ dstKeys' = [c \in Curves |->
                           IF clipboard[c] # {} THEN clipboard[c] ELSE dstKeys[c]]
          /\ nodes' = nodes \cup
                {CurveNode(c[1], c[2]) : c \in {d \in Curves : clipboard[d] # {}}}
          /\ calls' = Append(calls, "pasteKey")
          /\ pc' = "listAttrs"
          /\ UNCHANGED <<exc, msg>>
       \/ /\ Throw("pasteKey")
          /\ UNCHANGED <<dstKeys, nodes>>
    /\ UNCHANGED otherThanSave
    /\ UNCHANGED <<argVars, keys, connected, clipboard, chunk, bookVars, start, end,
                   metadata, files>>

(* Lines 396-402: the node type of the duplicate (ls), then its attributes: *)
(* the weight aliases of a blendshape (getAttr of the size, one aliasAttr   *)
(* per weight), the keyable attributes of any other node (listAttr)         *)
ListDuplicateAttrs ==
    /\ pc = "listAttrs"
    /\ LET name == Objects[idx]
       IN \/ /\ attrs' = DuplicateAttrs(name)
             /\ pc' = "attrs"
             /\ UNCHANGED <<exc, msg, calls>>
          \/ /\ Raise("ls")
             /\ UNCHANGED attrs
          \/ /\ NodeType(name) = BLEND_SHAPE_TYPE
             /\ \/ Raise("getAttr")
                \/ Len(WeightAlias(name)) > 0 /\ Raise("aliasAttr")
             /\ UNCHANGED attrs
          \/ /\ NodeType(name) # BLEND_SHAPE_TYPE
             /\ Raise("listAttr")
             /\ UNCHANGED attrs
    /\ UNCHANGED otherThanSave
    /\ UNCHANGED <<argVars, sceneVars, validCurves, deleteObjects, animCurves,
                   curAttr, idx, start, end, metadata, files>>

(* Lines 405-413: one attribute of the duplicate. dstAttr.animCurve()      *)
(* queries the host; with a dstCurve: rename it to "CURVE" and remember it *)
VisitAttr ==
    /\ pc = "attrs"
    /\ \E a \in attrs :
        LET name == Objects[idx]
        IN \/ IF CurveNode(name, a) \in nodes
              THEN \/ /\ deleteObjects' = Append(deleteObjects, CurveNode(name, a))
                      /\ calls' = Append(calls, "rename")
                      /\ pc' = "keyframe" /\ curAttr' = a /\ attrs' = attrs
                      /\ UNCHANGED <<exc, msg>>
                   \/ /\ Throw("rename")
                      /\ UNCHANGED <<deleteObjects, curAttr, attrs>>
              ELSE /\ attrs' = attrs \ {a}
                   /\ UNCHANGED <<deleteObjects, curAttr, pc, exc, msg, calls>>
           \/ /\ Raise("animCurve")
              /\ UNCHANGED <<deleteObjects, curAttr, attrs>>
    /\ UNCHANGED otherThanSave
    /\ UNCHANGED <<argVars, sceneVars, validCurves, animCurves, idx, start, end,
                   metadata, files>>

(* Lines 415-429: copy the infinity and colour of the source curve (when   *)
(* there is one), then count the keys of the renamed curve in (start, end) *)
Keyframe ==
    /\ pc = "keyframe"
    /\ LET c == <<Objects[idx], curAttr>>
       IN \/ /\ IF KeyframeCount(dstKeys[c], Val(start), Val(end)) > 0
                THEN pc' = "setAnimCurve" /\ curAttr' = curAttr /\ attrs' = attrs
                ELSE pc' = "attrs" /\ curAttr' = "" /\ attrs' = attrs \ {curAttr}
             /\ UNCHANGED <<exc, msg, calls>>
          \/ /\ keys[c] # {}
             /\ \/ Raise("getAttr") \/ Raise("setAttr")
             /\ UNCHANGED <<curAttr, attrs>>
          \/ /\ \/ Raise("animCurve") \/ Raise("keyframe")
             /\ UNCHANGED <<curAttr, attrs>>
    /\ UNCHANGED otherThanSave
    /\ UNCHANGED <<argVars, sceneVars, validCurves, deleteObjects, animCurves, idx,
                   start, end, metadata, files>>

(* Line 430: record the curve under the source attribute *)
SetAnimCurve ==
    /\ pc = "setAnimCurve"
    /\ \/ /\ animCurves' = animCurves \cup {<<Objects[idx], curAttr>>}
          /\ pc' = "cut"
          /\ UNCHANGED <<exc, msg, calls>>
       \/ /\ Raise("setAnimCurve")
          /\ UNCHANGED animCurves
    /\ UNCHANGED otherThanSave
    /\ UNCHANGED <<argVars, sceneVars, validCurves, deleteObjects, attrs, curAttr,
                   idx, start, end, metadata, files>>

(* Line 431: cut the keys before the range *)
CutKeyBefore ==
    /\ pc = "cut"
    /\ LET c == <<Objects[idx], curAttr>>
       IN \/ /\ dstKeys' = [dstKeys EXCEPT
                              ![c] = cutKey(dstKeys[c], MIN_TIME_LIMIT, Val(start) - 1)]
             /\ calls' = Append(calls, "cutKey")
             /\ pc' = "cut2"
             /\ UNCHANGED <<exc, msg>>
          \/ /\ Throw("cutKey")
             /\ UNCHANGED dstKeys
    /\ UNCHANGED otherThanSave
    /\ UNCHANGED <<argVars, keys, connected, nodes, clipboard, chunk, bookVars,
                   start, end, metadata, files>>

(* Lines 432-433: cut the keys after the range (end already incremented)   *)
(* and add the curve to the export                                         *)
CutKeyAfter ==
    /\ pc = "cut2"
    /\ LET name == Objects[idx]
           c == <<name, curAttr>>
       IN \/ /\ dstKeys' = [dstKeys EXCEPT
                              ![c] = cutKey(dstKeys[c], Val(end) + 1, MAX_TIME_LIMIT)]
             /\ validCurves' = Append(validCurves, CurveNode(name, curAttr))
             /\ calls' = Append(calls, "cutKey")
             /\ attrs' = attrs \ {curAttr}
             /\ curAttr' = ""
             /\ pc' = "attrs"
             /\ UNCHANGED <<exc, msg>>
          \/ /\ Throw("cutKey")
             /\ UNCHANGED <<dstKeys, validCurves, attrs, curAttr>>
    /\ UNCHANGED otherThanSave
    /\ UNCHANGED <<argVars, keys, connected, nodes, clipboard, chunk,
                   deleteObjects, animCurves, idx, start, end, metadata, files>>

(* Line 405: the attributes of this duplicate are exhausted *)
NextObject ==
    /\ pc = "attrs"
    /\ attrs = {}
    /\ idx' = idx + 1
    /\ pc' = "loop"
    /\ UNCHANGED otherThanSave
    /\ UNCHANGED <<argVars, sceneVars, validCurves, deleteObjects, animCurves,
                   attrs, curAttr, start, end, metadata, exc, msg, calls, files>>

(* Lines 435-441: os.path.join(path, fileName) raises when path is not a  *)
(* string (AttributeError or TypeError, depending on the interpreter);    *)
(* then mutils.Pose.save(self, path/pose.json)                            *)
PoseSave ==
    /\ pc = "poseSave"
    /\ IF IsString(savePath)
       THEN \/ /\ files' = Append(files, "pose.json")
               /\ calls' = Append(calls, "Pose.save")
               /\ pc' = IF validCurves # <<>> THEN "export" ELSE "finally"
               /\ UNCHANGED <<exc, msg>>
            \/ /\ Throw("Pose.save")
               /\ UNCHANGED files
       ELSE /\ exc' \in {"AttributeError", "TypeError"}
            /\ msg' = "os.path.join"
            /\ pc' = "finally"
            /\ UNCHANGED <<calls, files>>
    /\ UNCHANGED otherThanSave
    /\ UNCHANGED <<argVars, sceneVars, bookVars, start, end, metadata>>

(* Line 444: select the valid curves *)
Select ==
    /\ pc = "export"
    /\ \/ /\ calls' = Append(calls, "select")
          /\ pc' = "file"
          /\ UNCHANGED <<exc, msg>>
       \/ Throw("select")
    /\ UNCHANGED otherThanSave
    /\ UNCHANGED <<argVars, sceneVars, bookVars, start, end, metadata, files>>

(* Line 446: export the selection to the scene file *)
Export ==
    /\ pc = "file"
    /\ \/ /\ files' = Append(files, FileName(EffectiveFileType(fileType)))
          /\ calls' = Append(calls, "file")
          /\ pc' = "clean"
          /\ UNCHANGED <<exc, msg>>
       \/ /\ Throw("file")
          /\ UNCHANGED files
    /\ UNCHANGED otherThanSave
    /\ UNCHANGED <<argVars, sceneVars, bookVars, start, end, metadata>>

(* Line 447: self.cleanMayaFile(mayaPath), the scene file is already written *)
CleanMayaFile ==
    /\ pc = "clean"
    /\ \/ /\ calls' = Append(calls, "cleanMayaFile")
          /\ pc' = "finally"
          /\ UNCHANGED <<exc, msg>>
       \/ Throw("cleanMayaFile")
    /\ UNCHANGED otherThanSave
    /\ UNCHANGED <<argVars, sceneVars, bookVars, start, end, metadata, files>>

(* The end of save: re-raise the pending exception, or line 457 *)
Leave == pc' = IF exc # "" THEN "raised" ELSE "done"

(* Line 452: closes the chunk this call opened, when it opened one. When   *)
(* the call raises, line 453 is not reached.                               *)
CloseChunk ==
    /\ pc = "finally"
    /\ bakeConnected
    /\ calls' = Append(calls, "closeChunk")
    /\ \/ /\ chunk' = IF chunk = None THEN None
                      ELSE Some([Val(chunk) EXCEPT !.open = FALSE])
          /\ pc' = "undo"
          /\ UNCHANGED <<exc, msg>>
       \/ /\ Propagate("closeChunk")
          /\ UNCHANGED chunk
    /\ UNCHANGED otherThanSave
    /\ UNCHANGED <<argVars, keys, connected, nodes, dstKeys, clipboard, bookVars,
                   start, end, metadata, files>>

(* Line 453: maya.cmds.undo() reverts the last closed chunk. When this    *)
(* call opened none (openChunk raised) nothing of this call is reverted;  *)
(* when undo raises nothing is reverted either.                           *)
Undo ==
    /\ pc = "undo"
    /\ calls' = Append(calls, "undo")
    /\ \/ /\ keys' = IF chunk = None THEN keys ELSE Val(chunk).keys
          /\ nodes' = IF chunk = None THEN nodes ELSE Val(chunk).nodes
          /\ dstKeys' = [c \in Curves |-> {}]
          /\ chunk' = None
          /\ Leave
          /\ UNCHANGED <<exc, msg>>
       \/ /\ Propagate("undo")
          /\ UNCHANGED <<keys, nodes, dstKeys, chunk>>
    /\ UNCHANGED otherThanSave
    /\ UNCHANGED <<argVars, connected, clipboard, bookVars, start, end, metadata,
                   files>>

(* Lines 454-455: without the bake, delete the nodes of deleteObjects (a   *)
(* curve goes with the duplicate that owns it); when delete raises the     *)
(* nodes stay                                                              *)
DeleteTemp ==
    /\ pc = "finally"
    /\ ~bakeConnected
    /\ deleteObjects # <<>>
    /\ calls' = Append(calls, "delete")
    /\ \/ /\ nodes' = {n \in nodes :
                         /\ n \notin Range(deleteObjects)
                         /\ ~(Len(n) = 3 /\ DupNode(n[2]) \in Range(deleteObjects))}
          /\ dstKeys' = [c \in Curves |->
                           IF CurveNode(c[1], c[2]) \in nodes' THEN dstKeys[c] ELSE {}]
          /\ Leave
          /\ UNCHANGED <<exc, msg>>
       \/ /\ Propagate("delete")
          /\ UNCHANGED <<nodes, dstKeys>>
    /\ UNCHANGED otherThanSave
    /\ UNCHANGED <<argVars, keys, connected, clipboard, chunk, bookVars, start,
                   end, metadata, files>>

(* Lines 450-455 when neither branch applies *)
NoCleanup ==
    /\ pc = "finally"
    /\ ~bakeConnected
    /\ deleteObjects = <<>>
    /\ Leave
    /\ UNCHANGED otherThanSave
    /\ UNCHANGED <<argVars, sceneVars, bookVars, start, end, metadata, exc, msg,
                   calls, files>>

NextSave ==
    \/ Begin \/ OpenChunk \/ Bake \/ LoopDone \/ CopyKey \/ Duplicate \/ PasteKey
    \/ ListDuplicateAttrs
    \/ VisitAttr \/ Keyframe \/ SetAnimCurve \/ CutKeyBefore \/ CutKeyAfter
    \/ NextObject \/ PoseSave \/ Select \/ Export \/ CleanMayaFile
    \/ CloseChunk \/ Undo \/ DeleteTemp \/ NoCleanup

SaveOnly == InitSave /\ IdleLoad /\ IdleWrite /\ IdleWidget /\ IdleData

SpecSave == SaveOnly /\ [][NextSave]_vars

----------------------------------------------------------------------------
(* Properties of Blendshape.save *)

Count(seq, x) == Cardinality({i \in 1..Len(seq) : seq[i] = x})
Before(seq, x, y) ==
    \A j \in 1..Len(seq) : seq[j] = y => \E i \in 1..(j - 1) : seq[i] = x

Exited == pc \in {"done", "raised"}
ValidationPassed == metadata # None
InLoop == pc \in {"loop", "duplicate", "paste", "listAttrs", "attrs", "keyframe",
                  "setAnimCurve", "cut", "cut2"}
InTry == InLoop \/ pc \in {"openChunk", "bake", "poseSave", "export", "file", "clean"}

(* C1 as stated: with bakeConnected the undo chunk is opened before the    *)
(* bake; every exit of the try block, normal or by an exception of any     *)
(* step, closes the chunk exactly once and then issues exactly one undo;   *)
(* without bakeConnected save opens no chunk, closes none and issues no    *)
(* undo. It fails when undoInfo(closeChunk=True) itself raises: line 453   *)
(* is then skipped.                                                        *)
C1_UndoChunkBracket ==
    /\ bakeConnected =>
        /\ Before(calls, "openChunk", "bakeConnected")
        /\ Count(calls, "openChunk") <= 1
        /\ InTry => Count(calls, "closeChunk") = 0 /\ Count(calls, "undo") = 0
        /\ (pc = "undo" /\ msg # "openChunk") => chunk # None /\ ~Val(chunk).open
        /\ (Exited /\ ValidationPassed) =>
            /\ Count(calls, "openChunk") = 1
            /\ Count(calls, "closeChunk") = 1
            /\ Count(calls, "undo") = 1
            /\ Before(calls, "openChunk", "closeChunk")
            /\ Before(calls, "closeChunk", "undo")
            /\ calls[Len(calls)] = "undo"
    /\ ~bakeConnected =>
        /\ Count(calls, "openChunk") = 0
        /\ Count(calls, "closeChunk") = 0
        /\ Count(calls, "undo") = 0

(* C1, amended: with bakeConnected the undo chunk is opened before the    *)
(* bake and every exit of the try block calls closeChunk exactly once;     *)
(* exactly one undo follows it, as the last call, unless closeChunk itself *)
(* raised, and then no undo is issued and save raises the host error;      *)
(* without bakeConnected save opens no chunk, closes none and issues no    *)
(* undo.                                                                   *)
C1_UndoUnlessCloseFails ==
    /\ bakeConnected =>
        /\ Before(calls, "openChunk", "bakeConnected")
        /\ Count(calls, "openChunk") <= 1
        /\ InTry => Count(calls, "closeChunk") = 0 /\ Count(calls, "undo") = 0
        /\ (pc = "undo" /\ msg # "openChunk") => chunk # None /\ ~Val(chunk).open
        /\ (Exited /\ ValidationPassed) =>
            /\ Count(calls, "openChunk") = 1
            /\ Count(calls, "closeChunk") = 1
            /\ Before(calls, "openChunk", "closeChunk")
            /\ IF msg = "closeChunk"
               THEN /\ pc = "raised" /\ exc = "HostError"
                    /\ Count(calls, "undo") = 0
                    /\ calls[Len(calls)] = "closeChunk"
               ELSE /\ Count(calls, "undo") = 1
                    /\ Before(calls, "closeChunk", "undo")
                    /\ calls[Len(calls)] = "undo"
    /\ ~bakeConnected =>
        /\ Count(calls, "openChunk") = 0
        /\ Count(calls, "closeChunk") = 0
        /\ Count(calls, "undo") = 0

C1_Witness ==
    /\ bakeConnected /\ pc = "raised" /\ msg = "cutKey"
    /\ Count(calls, "closeChunk") = 1 /\ Count(calls, "undo") = 1
    /\ calls[Len(calls)] = "undo"

(* The range save validated: as resolved on a raise, from the metadata     *)
(* once it is recorded (end is incremented after that).                    *)
ResolvedStart == IF ValidationPassed THEN Some(Val(metadata).startFrame) ELSE start
ResolvedEnd == IF ValidationPassed THEN Some(Val(metadata).endFrame) ELSE end

NoExportWork ==
    \A i \in 1..Len(calls) :
        calls[i] \notin {"copyKey", "duplicate", "Pose.save", "file"}

(* C2 as stated: save raises AnimationTransferError when the resolved      *)
(* start or end is None, when start >= end, and when the duration of the   *)
(* nodes is <= 0; then no copyKey, duplicate, Pose.save or file export is  *)
(* performed. It fails on the exception class when a host query made       *)
(* before the check raises.                                                *)
C2_InvalidRangeRaises ==
    pc # "start" =>
        ((\/ ResolvedStart = None
          \/ ResolvedEnd = None
          \/ Val(ResolvedStart) >= Val(ResolvedEnd)
          \/ duration <= 0)
         => /\ pc = "raised"
            /\ exc = "AnimationTransferError"
            /\ NoExportWork
            /\ files = <<>>)

PreTryQueries ==
    {"selectedObjectsFrameRange", "mel.eval", "animLayer", "getDurationFromNodes"}
HostQueryRaised == exc = "HostError" /\ msg \in PreTryQueries

(* C2, amended: when the resolved start or end is None, when start >= end, *)
(* and when the duration of the nodes is <= 0, save raises before the try  *)
(* block, so no copyKey, duplicate, Pose.save or file export is performed; *)
(* the exception is AnimationTransferError unless a host query made before *)
(* the check (selectedObjectsFrameRange, mel.eval, animLayer,              *)
(* getDurationFromNodes) raised, and then it is that host error.           *)
C2_InvalidRangeNeverSaves ==
    pc # "start" =>
        ((\/ ResolvedStart = None
          \/ ResolvedEnd = None
          \/ Val(ResolvedStart) >= Val(ResolvedEnd)
          \/ duration <= 0)
         => /\ pc = "raised"
            /\ exc = "AnimationTransferError" \/ HostQueryRaised
            /\ calls = <<>>
            /\ NoExportWork
            /\ files = <<>>
            /\ metadata = None)

C2_Witness ==
    /\ pc = "raised" /\ msg = "StartGEEnd" /\ exc = "AnimationTransferError"
    /\ start # None /\ start = end
    /\ calls = <<>>

(* C3 as stated: the layer check raises AnimationTransferError for more    *)
(* than one selected layer and for a single locked layer, and passes for   *)
(* no layer or a single unlocked one; it runs before the range checks, so  *)
(* its error wins over an invalid range. It fails when a host query made   *)
(* before or inside the layer check raises.                                *)
C3_LayerCheckFirst ==
    pc # "start" =>
        /\ animLayers > 1 =>
            pc = "raised" /\ exc = "AnimationTransferError"
                          /\ msg = "MoreThanOneLayer"
        /\ (animLayers = 1 /\ layerLocked) =>
            pc = "raised" /\ exc = "AnimationTransferError" /\ msg = "LayerLocked"
        /\ (animLayers = 0 \/ (animLayers = 1 /\ ~layerLocked)) =>
            msg \notin {"MoreThanOneLayer", "LayerLocked"}

LayerQueryRaised(queries) == pc = "raised" /\ exc = "HostError" /\ msg \in queries

(* C3, amended: unless a host query raises first (selectedObjectsFrameRange *)
(* when no time was passed, mel.eval, or animLayer for a single layer),     *)
(* the layer check raises AnimationTransferError for more than one          *)
(* selected layer and for a single locked layer, also when the range is     *)
(* invalid, since it runs before the range checks; it passes for no layer   *)
(* or a single unlocked one.                                                *)
C3_LayerCheckBeforeRange ==
    pc # "start" =>
        /\ animLayers > 1 =>
            \/ pc = "raised" /\ exc = "AnimationTransferError"
                             /\ msg = "MoreThanOneLayer"
            \/ LayerQueryRaised({"selectedObjectsFrameRange", "mel.eval"})
        /\ (animLayers = 1 /\ layerLocked) =>
            \/ pc = "raised" /\ exc = "AnimationTransferError" /\ msg = "LayerLocked"
            \/ LayerQueryRaised({"selectedObjectsFrameRange", "mel.eval", "animLayer"})
        /\ (animLayers = 0 \/ (animLayers = 1 /\ ~layerLocked)) =>
            msg \notin {"MoreThanOneLayer", "LayerLocked"}
        /\ msg = "selectedObjectsFrameRange" => start = None /\ end = None
        /\ msg = "animLayer" => animLayers = 1

C3_Witness ==
    /\ pc = "raised" /\ animLayers = 2 /\ msg = "MoreThanOneLayer"
    /\ start # None /\ end # None /\ Val(start) >= Val(end)

(* C4: a curve added to the exported set holds, after the two cuts, no key *)
(* at an integer frame within the time limits outside the saved range      *)
(* [startFrame, endFrame], in particular none at endFrame + 1.             *)
C4_NoKeyOutsideRange ==
    \A c \in Curves :
        (CurveNode(c[1], c[2]) \in Range(validCurves) /\ CurveNode(c[1], c[2]) \in nodes)
        => \A t \in dstKeys[c] :
              (MIN_TIME_LIMIT <= t /\ t <= MAX_TIME_LIMIT)
              => (Val(metadata).startFrame <= t /\ t <= Val(metadata).endFrame)

C4_Witness ==
    \E c \in Curves :
        /\ CurveNode(c[1], c[2]) \in Range(validCurves)
        /\ CurveNode(c[1], c[2]) \in nodes
        /\ (Val(metadata).endFrame + 1) \in keys[c]
        /\ dstKeys[c] # {}

(* C5: with bakeConnected the bake over (start, end + 1) precedes every    *)
(* copyKey and the export, is in effect while they run, and is reverted    *)
(* only by the undo of the finally block, after the export step has        *)
(* finished or failed: no copyKey or export follows an undo, and baked     *)
(* keys are gone only once that undo has run.                              *)
C5_BakeBeforeExport ==
    bakeConnected =>
        /\ Before(calls, "bakeConnected", "copyKey")
        /\ Before(calls, "bakeConnected", "file")
        /\ \A i \in 1..Len(calls) : calls[i] = "undo" =>
              \A j \in (i + 1)..Len(calls) : calls[j] \notin {"copyKey", "select", "file"}
        /\ (InLoop \/ pc \in {"poseSave", "export", "file", "clean"}) =>
              \A c \in connected :
                  keys[c] = Val(metadata).startFrame..(Val(metadata).endFrame + 1)
        /\ (pc = "undo" /\ msg # "openChunk" /\ msg # "bakeConnected") =>
              \A c \in connected :
                  keys[c] = Val(metadata).startFrame..(Val(metadata).endFrame + 1)
        /\ (Exited /\ calls # <<>> /\ calls[Len(calls)] = "undo" /\ msg # "undo") =>
              \A c \in connected : keys[c] = {}
        /\ (\E c \in connected : keys[c] # {}) =>
              /\ Count(calls, "bakeConnected") = 1
              /\ \/ ~Exited
                 \/ pc = "raised" /\ msg \in {"closeChunk", "undo"}

C5_Witness ==
    /\ bakeConnected /\ pc = "done" /\ connected # {}
    /\ Count(calls, "file") = 1
    /\ calls[Len(calls)] = "undo"

HadKeyInRange(c) ==
    \/ bakeConnected /\ c \in connected
    \/ \E t \in keys[c] :
          Val(metadata).startFrame <= t /\ t <= Val(metadata).endFrame

(* C6: a successful save writes pose.json first and always, the scene file *)
(* exactly when some curve had a key in the range (validCurves non-empty), *)
(* named animation.mb exactly for fileType "mayaBinary" or empty and       *)
(* animation.ma for any other fileType.                                    *)
C6_FilesWritten ==
    pc = "done" =>
        /\ Len(files) >= 1 /\ files[1] = "pose.json"
        /\ Len(files) <= 2
        /\ (Len(files) = 2) <=> (validCurves # <<>>)
        /\ (validCurves # <<>>) <=> (\E c \in Curves : HadKeyInRange(c))
        /\ Len(files) = 2 =>
            /\ (files[2] = "animation.mb") <=> (fileType \in {"", "mayaBinary"})
            /\ (files[2] = "animation.ma") <=> (fileType \notin {"", "mayaBinary"})

C6_Witness ==
    /\ pc = "done" /\ fileType = ""
    /\ files = <<"pose.json", "animation.mb">>

IsDuplicate(n) == Len(n) # 3
IsCurve(n) == Len(n) = 3

(* C11 as stated: every temporary node save creates (the nodes duplicate   *)
(* returns and the curves of the duplicates) is gone when save returns or  *)
(* raises. With bakeConnected the open chunk contains their creation, so   *)
(* the undo removes them; without it deleteObjects holds every duplicate   *)
(* created so far (a curve not yet renamed goes with the duplicate that    *)
(* owns it), and every curve in validCurves is also in deleteObjects. It   *)
(* fails for a node duplicate returns besides transform[0], and when the   *)
(* cleanup call itself raises.                                             *)
C11_TemporaryNodesRemoved ==
    /\ Exited => nodes = {}
    /\ \A i \in 1..Len(validCurves) : validCurves[i] \in Range(deleteObjects)
    /\ \A i \in 1..Len(deleteObjects) :
          pc \notin {"done", "raised"} => deleteObjects[i] \in nodes
    /\ (~bakeConnected /\ ~Exited) =>
          \A n \in nodes :
              /\ IsDuplicate(n) => n \in Range(deleteObjects)
              /\ IsCurve(n) => DupNode(n[2]) \in Range(deleteObjects)
    /\ (bakeConnected /\ nodes # {}) =>
          /\ chunk # None
          /\ Val(chunk).nodes = {}
    /\ (~bakeConnected /\ Exited /\ deleteObjects # <<>>) =>
          calls[Len(calls)] = "delete"

----------------------------------------------------------------------------
(* loadBlendshape, lines 179-258 *)

(* PasteOption, lines 85-90 *)
Insert == "insert"
Replace == "replace"
ReplaceAll == "replace all"
ReplaceCompletely == "replaceCompletely"

(* The animations on disc: startFrame and endFrame of their metadata *)
AnimPaths == {"walk", "run"}
AnimStart(p) == IF p = "walk" THEN 1 ELSE 0
AnimEnd(p) == IF p = "walk" THEN 3 ELSE 4

SeqsUpTo(S, n) == UNION {[1..k -> S] : k \in 0..n}

(* The names bound at module level of mutils/blendshape.py *)
ModuleGlobals ==
    {"os", "shutil", "logging", "QtWidgets", "mutils", "maya", "__all__", "logger",
     "MIN_TIME_LIMIT", "MAX_TIME_LIMIT", "DEFAULT_FILE_TYPE", "BLEND_SHAPE_TYPE",
     "FIX_SAVE_ANIM_REFERENCE_LOCKED_ERROR", "PasteOption",
     "AnimationTransferError", "OutOfBoundsError", "validateAnimLayers",
     "saveBlendshape", "loadBlendshape", "Blendshape"}

(* The local names of loadBlendshape bound when the loops are reached: its *)
(* parameters (lines 180-189) and isFirstAnim (line 205)                   *)
LoadFrame ==
    ("path" :> path) @@ ("spacing" :> spacing) @@ ("objects" :> None)
    @@ ("option" :> option) @@ ("connect" :> FALSE) @@ ("namespaces" :> None)
    @@ ("startFrame" :> startFrame) @@ ("mirrorTable" :> None)
    @@ ("currentTime" :> currentTime) @@ ("showDialog" :> showDialog)
    @@ ("isFirstAnim" :> isFirstAnim)

(* Python's name lookup: local, then module global; otherwise NameError *)
Resolves(name) == name \in (DOMAIN LoadFrame) \cup ModuleGlobals
Lookup(name) == LoadFrame[name]

(* Lines 236-258: the loop body over a list of paths, as the anim.load     *)
(* calls it makes                                                          *)
RECURSIVE LoadSeq(_, _, _, _, _)
LoadSeq(ps, sf, opt, sp, first) ==
    IF ps = <<>> THEN <<>>
    ELSE LET p == Head(ps)
             sf1 == IF sf = None /\ first THEN Some(AnimStart(p)) ELSE sf
             opt1 == IF opt = Some(ReplaceCompletely) /\ ~first
                     THEN Some(Insert) ELSE opt
         IN <<[path |-> p, startFrame |-> Val(sf1), option |-> Val(opt1)]>>
            \o LoadSeq(Tail(ps),
                       Some(Val(sf1) + (AnimEnd(p) - AnimStart(p)) + sp),
                       opt1, sp, FALSE)

InitLoad ==
    /\ loadPc = "start"
    /\ path \in SeqsUpTo(AnimPaths, MaxPaths) \ {<<>>}
    /\ spacing \in 0..MaxSpacing
    /\ startFrame \in OptFrames
    /\ option \in {None} \cup {Some(o) : o \in {Insert, Replace, ReplaceAll,
                                                  ReplaceCompletely}}
    /\ currentTime \in BOOLEAN
    /\ showDialog \in BOOLEAN
    /\ hostTime \in Frames
    /\ (~currentTime => hostTime = 0)
    /\ isFirstAnim = TRUE
    /\ loaded = <<>>
    /\ loadExc = ""

(* Lines 205-214 *)
LoadNormalise ==
    /\ loadPc = "start"
    /\ isFirstAnim' = TRUE
    /\ spacing' = IF spacing < 1 THEN 1 ELSE spacing
    /\ option' = IF option = None \/ option = Some("replace all")
                 THEN Some(ReplaceCompletely) ELSE option
    /\ startFrame' = IF currentTime /\ startFrame = None
                     THEN Some(hostTime) ELSE startFrame
    /\ loadPc' = IF showDialog THEN "dialog" ELSE "loop"
    /\ UNCHANGED <<path, currentTime, showDialog, hostTime, loaded, loadExc>>
    /\ UNCHANGED otherThanLoad

(* Lines 216-234: the dialog; line 220 reads the name "paths" *)
LoadDialog ==
    /\ loadPc = "dialog"
    /\ IF ~Resolves("paths")
       THEN /\ loadExc' = "NameError"
            /\ loadPc' = "raised"
            /\ UNCHANGED spacing
       ELSE \E sp \in 0..MaxSpacing, accepted \in BOOLEAN :
            /\ spacing' = sp
            /\ IF accepted
               THEN loadPc' = "loop" /\ loadExc' = loadExc
               ELSE loadPc' = "raised" /\ loadExc' = "Exception"
    /\ UNCHANGED <<path, startFrame, option, currentTime, showDialog, hostTime,
                   isFirstAnim, loaded>>
    /\ UNCHANGED otherThanLoad

(* Lines 236-258: the loop; line 236 reads the name "paths" *)
LoadLoop ==
    /\ loadPc = "loop"
    /\ IF ~Resolves("paths")
       THEN /\ loadExc' = "NameError"
            /\ loadPc' = "raised"
            /\ UNCHANGED <<loaded, isFirstAnim>>
       ELSE /\ loaded' = LoadSeq(Lookup("paths"), startFrame, option, spacing,
                                 isFirstAnim)
            /\ isFirstAnim' = (Lookup("paths") = <<>>)
            /\ loadPc' = "done"
            /\ UNCHANGED loadExc
    /\ UNCHANGED <<path, spacing, startFrame, option, currentTime, showDialog,
                   hostTime>>
    /\ UNCHANGED otherThanLoad

NextLoad == LoadNormalise \/ LoadDialog \/ LoadLoop

LoadOnly == InitLoad /\ IdleSave /\ IdleWrite /\ IdleWidget /\ IdleData

SpecLoad == LoadOnly /\ [][NextLoad]_vars

(* The start frame the documentation gives the i-th animation *)
RECURSIVE DocStart(_, _, _, _)
DocStart(ps, i, sf, sp) ==
    IF i = 1 THEN (IF sf = None THEN AnimStart(ps[1]) ELSE Val(sf))
    ELSE DocStart(ps, i - 1, sf, sp)
         + (AnimEnd(ps[i - 1]) - AnimStart(ps[i - 1])) + sp

(* C7: loadBlendshape loads the animations in the order of the paths: the  *)
(* first at startFrame (its own start frame when startFrame is None), each *)
(* following one at the previous start plus the previous duration plus     *)
(* spacing, a spacing below 1 counting as 1.                               *)
C7_LoadsInOrder ==
    (loadPc \in {"done", "raised"} /\ ~showDialog /\ ~currentTime) =>
        /\ loadExc = ""
        /\ Len(loaded) = Len(path)
        /\ \A i \in 1..Len(path) :
              /\ loaded[i].path = path[i]
              /\ loaded[i].startFrame = DocStart(path, i, startFrame, spacing)

----------------------------------------------------------------------------
(* BlendshapeItem.write (blendshapeitem.py 400-416) and saveBlendshape     *)
(* (blendshape.py 126-176)                                                 *)

PathSegments == {<<"tmp">>, <<"lib", "item">>}
ObjectNames == {"Face", "Ctrl"}

(* The parameters of saveBlendshape in order, and their defaults *)
SaveBlendshapeParams ==
    <<"objects", "path", "time", "sampleBy", "fileType", "metadata", "iconPath",
      "sequencePath", "bakeConnected">>
SaveBlendshapeDefaults ==
    ("time" :> None) @@ ("sampleBy" :> 1) @@ ("fileType" :> "")
    @@ ("metadata" :> None) @@ ("iconPath" :> "") @@ ("sequencePath" :> "")
    @@ ("bakeConnected" :> TRUE)

(* path + "/name" *)
Join(p, name) == Append(p, name)

(* Python's binding of a call: positional arguments to the parameters in   *)
(* order, then keywords, then defaults                                     *)
BindCall(params, defaults, positional, keywords) ==
    [n \in Range(params) |->
        LET i == CHOOSE j \in 1..Len(params) : params[j] = n
        IN IF i <= Len(positional) THEN positional[i]
           ELSE IF n \in DOMAIN keywords THEN keywords[n]
           ELSE defaults[n]]

InitWrite ==
    /\ writePc = "start"
    /\ writePath \in PathSegments
    /\ writeObjects \in SeqsUpTo(ObjectNames, MaxObjects)
    /\ writeIconPath \in {"", "icon.jpg"}
    /\ comment \in {"", "smile"}
    /\ bound = None /\ copied = <<>>
    /\ fromObjectsArg = None /\ saveLocation = None /\ updatedMetadata = None

(* blendshapeitem.py line 409 *)
WriteSuper ==
    /\ writePc = "start"
    /\ writePc' = "call"
    /\ UNCHANGED <<writePath, writeObjects, writeIconPath, comment, bound, copied,
                   fromObjectsArg, saveLocation, updatedMetadata>>
    /\ UNCHANGED otherThanWrite

(* blendshapeitem.py lines 412-416: the call of saveBlendshape *)
CallSaveBlendshape ==
    /\ writePc = "call"
    /\ bound' = Some(BindCall(SaveBlendshapeParams, SaveBlendshapeDefaults,
                              <<Join(writePath, "blendshape.json"), writeObjects>>,
                              "metadata" :> Some([description |-> comment])))
    /\ writePc' = "copy"
    /\ UNCHANGED <<writePath, writeObjects, writeIconPath, comment, copied,
                   fromObjectsArg, saveLocation, updatedMetadata>>
    /\ UNCHANGED otherThanWrite

(* blendshape.py lines 155-161 *)
CopyFiles ==
    /\ writePc = "copy"
    /\ copied' = (IF Val(bound)["iconPath"] # "" THEN <<"thumbnail.jpg">> ELSE <<>>)
                 \o (IF Val(bound)["sequencePath"] # "" THEN <<"sequence">> ELSE <<>>)
    /\ writePc' = "fromObjects"
    /\ UNCHANGED <<writePath, writeObjects, writeIconPath, comment, bound,
                   fromObjectsArg, saveLocation, updatedMetadata>>
    /\ UNCHANGED otherThanWrite

(* blendshape.py line 163 *)
FromObjects ==
    /\ writePc = "fromObjects"
    /\ fromObjectsArg' = Some(Val(bound)["objects"])
    /\ writePc' = "metadata"
    /\ UNCHANGED <<writePath, writeObjects, writeIconPath, comment, bound, copied,
                   saveLocation, updatedMetadata>>
    /\ UNCHANGED otherThanWrite

(* blendshape.py lines 165-166 *)
UpdateMetadata ==
    /\ writePc = "metadata"
    /\ updatedMetadata' = IF Val(bound)["metadata"] # None
                          THEN Val(bound)["metadata"] ELSE updatedMetadata
    /\ writePc' = "save"
    /\ UNCHANGED <<writePath, writeObjects, writeIconPath, comment, bound, copied,
                   fromObjectsArg, saveLocation>>
    /\ UNCHANGED otherThanWrite

(* blendshape.py lines 168-174: the call of Blendshape.save, which then    *)
(* runs on the scene with the arguments bound here                         *)
CallSave ==
    /\ writePc = "save"
    /\ pc = "idle"
    /\ saveLocation' = Some(Val(bound)["path"])
    /\ savePath' = Val(bound)["path"]
    /\ time' = Val(bound)["time"]
    /\ fileType' = Val(bound)["fileType"]
    /\ bakeConnected' = Val(bound)["bakeConnected"]
    /\ pc' = "start"
    /\ writePc' = "saving"
    /\ UNCHANGED <<writePath, writeObjects, writeIconPath, comment, bound, copied,
                   fromObjectsArg, updatedMetadata>>
    /\ UNCHANGED <<animLayers, layerLocked, duration, sceneVars, bookVars, start,
                   end, metadata, exc, msg, calls, files>>
    /\ UNCHANGED <<loadVars, widgetVars, dataVars>>

(* blendshape.py line 176 and blendshapeitem.py line 417: save has returned *)
(* or raised; an exception of save leaves saveBlendshape and write         *)
SaveReturns ==
    /\ writePc = "saving"
    /\ pc \in {"done", "raised"}
    /\ writePc' = IF pc = "raised" THEN "raised" ELSE "done"
    /\ UNCHANGED <<writePath, writeObjects, writeIconPath, comment, bound, copied,
                   fromObjectsArg, saveLocation, updatedMetadata>>
    /\ UNCHANGED otherThanWrite

(* The steps of Blendshape.save that a call through write can take: the    *)
(* default bakeConnected=True is bound, and the value bound to path is     *)
(* not a string, so save leaves the try block at line 439 at the latest.   *)
NextWrite ==
    \/ WriteSuper \/ CallSaveBlendshape \/ CopyFiles \/ FromObjects
    \/ UpdateMetadata \/ CallSave
    \/ Begin \/ OpenChunk \/ Bake \/ LoopDone \/ CopyKey \/ Duplicate \/ PasteKey
    \/ ListDuplicateAttrs \/ VisitAttr \/ Keyframe \/ SetAnimCurve \/ CutKeyBefore
    \/ CutKeyAfter \/ NextObject \/ PoseSave \/ CloseChunk \/ Undo
    \/ SaveReturns

(* The scene write runs on: selected range, layers, duration and keys are  *)
(* the host's.                                                             *)
WriteScene ==
    /\ SaveNotCalled
    /\ animLayers = 0 /\ layerLocked = FALSE
    /\ duration \in {0, 1}
    /\ connected = {}
    /\ keys \in [Curves -> {{}, Frames}]

WriteOnly == InitWrite /\ WriteScene /\ IdleLoad /\ IdleWidget /\ IdleData

SpecWrite == WriteOnly /\ [][NextWrite]_vars

(* C8: write builds the transfer object from the objects list it was given *)
(* (Blendshape.fromObjects receives the objects, not the path string) and  *)
(* passes path + "/blendshape.json" to Blendshape.save.                    *)
C8_WritePassesObjects ==
    /\ fromObjectsArg # None => Val(fromObjectsArg) = writeObjects
    /\ saveLocation # None => Val(saveLocation) = Join(writePath, "blendshape.json")

----------------------------------------------------------------------------
(* BaseLoadWidget, baseloadwidget.py *)

setScriptJobEnabledNoKill(enabled, ev) ==
    IF enabled
    THEN IF scriptJob = None
         THEN IF mutilsImported
              THEN /\ scriptJob' = Some(nextJob)
                   /\ jobs' = jobs \cup {nextJob}
                   /\ nextJob' = nextJob + 1
                   /\ events' = Append(ev, "ScriptJob")
              ELSE /\ events' = ev
                   /\ UNCHANGED <<scriptJob, jobs, nextJob>>
         ELSE /\ events' = ev
              /\ UNCHANGED <<scriptJob, jobs, nextJob>>
    ELSE /\ events' = ev
         /\ scriptJob' = None
         /\ UNCHANGED <<jobs, nextJob>>

(* Lines 173-187. ev is the event log when the method is entered. Without  *)
(* mutils, line 182 raises NameError before anything is assigned.          *)
(* mutils.ScriptJob(event=...) registers a host script job that calls      *)
(* selectionChanged on every selection change until it is killed.          *)
setScriptJobEnabled(enabled, ev) ==
    IF enabled
    THEN IF scriptJob = None
         THEN IF mutilsImported
              THEN /\ scriptJob' = Some(nextJob)
                   /\ jobs' = jobs \cup {nextJob}
                   /\ nextJob' = nextJob + 1
                   /\ events' = Append(ev, "ScriptJob")
              ELSE /\ events' = ev
                   /\ UNCHANGED <<scriptJob, jobs, nextJob>>
         ELSE /\ events' = ev
              /\ UNCHANGED <<scriptJob, jobs, nextJob>>
    ELSE /\ IF scriptJob # None
            THEN /\ jobs' = jobs \ {Val(scriptJob)}
                 /\ events' = Append(ev, "kill")
            ELSE /\ jobs' = jobs
                 /\ events' = ev
         /\ scriptJob' = None
         /\ UNCHANGED nextJob

InitWidget ==
    /\ widgetPc = "new"
    /\ mutilsImported \in BOOLEAN
    /\ scriptJob = None
    /\ jobs = {}
    /\ nextJob = 1
    /\ validations = 0
    /\ events = <<>>

(* Lines 42-102: the constructor validates the form, calls                 *)
(* selectionChanged and enables the script job; a NameError (mutils not    *)
(* imported) is logged and leaves the widget without a script job          *)
Construct ==
    /\ widgetPc = "new"
    /\ IF mutilsImported
       THEN setScriptJobEnabled(TRUE, <<"validate", "validate">>)
       ELSE /\ events' = <<"validate", "validate", "NameError">>
            /\ UNCHANGED <<scriptJob, jobs, nextJob>>
    /\ widgetPc' = "open"
    /\ UNCHANGED <<validations, mutilsImported>>
    /\ UNCHANGED otherThanWidget

(* Lines 173-187, called on the open widget *)
SetScriptJobEnabled ==
    /\ widgetPc = "open"
    /\ \E enabled \in BOOLEAN :
        /\ (enabled /\ scriptJob = None) => nextJob <= MaxJobs
        /\ setScriptJobEnabled(enabled, events)
    /\ UNCHANGED <<widgetPc, validations, mutilsImported>>
    /\ UNCHANGED otherThanWidget

(* Lines 189-191: the host delivers a selection change to the callback of  *)
(* an alive script job                                                     *)
SelectionChanged ==
    /\ jobs # {}
    /\ validations < MaxEvents
    /\ validations' = validations + 1
    /\ events' = Append(events, "validate")
    /\ UNCHANGED <<widgetPc, mutilsImported, scriptJob, jobs, nextJob>>
    /\ UNCHANGED otherThanWidget

(* Line 155 *)
CloseKill ==
    /\ widgetPc = "open"
    /\ setScriptJobEnabled(FALSE, Append(events, "close"))
    /\ widgetPc' = "saveForm"
    /\ UNCHANGED <<validations, mutilsImported>>
    /\ UNCHANGED otherThanWidget

(* Lines 157-158 *)
CloseSaveForm ==
    /\ widgetPc = "saveForm"
    /\ events' = Append(events, "formWidget.savePersistentValues")
    /\ widgetPc' = "saveInfo"
    /\ UNCHANGED <<mutilsImported, scriptJob, jobs, nextJob, validations>>
    /\ UNCHANGED otherThanWidget

(* Lines 160-161 *)
CloseSaveInfo ==
    /\ widgetPc = "saveInfo"
    /\ events' = Append(events, "infoFormWidget.savePersistentValues")
    /\ widgetPc' = "qtClose"
    /\ UNCHANGED <<mutilsImported, scriptJob, jobs, nextJob, validations>>
    /\ UNCHANGED otherThanWidget

(* Line 163 *)
CloseQt ==
    /\ widgetPc = "qtClose"
    /\ events' = Append(events, "QWidget.close")
    /\ widgetPc' = "closed"
    /\ UNCHANGED <<mutilsImported, scriptJob, jobs, nextJob, validations>>
    /\ UNCHANGED otherThanWidget

NextWidget ==
    \/ Construct \/ SetScriptJobEnabled \/ SelectionChanged
    \/ CloseKill \/ CloseSaveForm \/ CloseSaveInfo \/ CloseQt

WidgetOnly == InitWidget /\ IdleSave /\ IdleLoad /\ IdleWrite /\ IdleData

SpecWidget == WidgetOnly /\ [][NextWidget]_vars

Closing == widgetPc \in {"saveForm", "saveInfo", "qtClose", "closed"}
CloseAt == CHOOSE i \in 1..Len(events) : events[i] = "close"

(* C9: close disables the script job: once close has run its first         *)
(* statement the job is killed and _scriptJob is None, no selectionChanged *)
(* callback reaches the widget any more, and the kill precedes the saving  *)
(* of both forms' persistent values and QWidget.close.                     *)
C9_CloseKillsScriptJob ==
    Closing =>
        /\ scriptJob = None
        /\ jobs = {}
        /\ Count(events, "kill") = Count(events, "ScriptJob")
        /\ \A i \in (CloseAt + 1)..Len(events) : events[i] # "validate"
        /\ \A i \in 1..Len(events) : \A j \in 1..Len(events) :
              (/\ i > CloseAt
               /\ events[i] = "kill"
               /\ events[j] \in {"formWidget.savePersistentValues",
                                 "infoFormWidget.savePersistentValues",
                                 "QWidget.close"})
              => i < j
        /\ Before(events, "formWidget.savePersistentValues",
                  "infoFormWidget.savePersistentValues")
        /\ Before(events, "infoFormWidget.savePersistentValues", "QWidget.close")
        /\ widgetPc = "closed" => events[Len(events)] = "QWidget.close"

C9_Witness ==
    /\ widgetPc = "closed"
    /\ validations > 0
    /\ events[CloseAt + 1] = "kill"
    /\ jobs = {}

----------------------------------------------------------------------------
(* Blendshape.createObjectData, blendshape.py lines 284-315 *)

AttrNames == {"smile", "frown"}

(* list(set(attrs)): the orders a set can be listed in *)
Orders(S) ==
    {f \in [1..Cardinality(S) -> S] : \A i, j \in DOMAIN f : f[i] = f[j] => i = j}

InitData ==
    /\ dataPc = "start"
    /\ nodeType \in {BLEND_SHAPE_TYPE, "transform"}
    /\ weightSize \in 0..MaxWeights
    /\ alias \in [1..MaxWeights -> AttrNames]
    /\ keyable \in SeqsUpTo(AttrNames, MaxKeyable)
    /\ (nodeType = BLEND_SHAPE_TYPE => keyable = <<>>)
    /\ (nodeType # BLEND_SHAPE_TYPE =>
            weightSize = 0 /\ alias = [i \in 1..MaxWeights |-> "smile"])
    /\ validAttrs \in SUBSET AttrNames
    /\ noneAttrs \in SUBSET AttrNames
    /\ existing \in SUBSET AttrNames
    /\ attrList = <<>>
    /\ pos = 1
    /\ dataAttrs = {}
    /\ written = {}
    /\ warnings = <<>>

hostData == <<nodeType, weightSize, alias, keyable, validAttrs, noneAttrs, existing>>

(* Lines 291-302 *)
ListAttrs ==
    /\ dataPc = "start"
    /\ IF nodeType = BLEND_SHAPE_TYPE
       THEN attrList' = getBlendshapeParamList(weightSize, alias)
       ELSE attrList' \in Orders(Range(keyable))
    /\ dataAttrs' = existing
    /\ pos' = 1
    /\ dataPc' = "loop"
    /\ UNCHANGED <<hostData, written, warnings>>
    /\ UNCHANGED otherThanData

(* Lines 304-313: one attribute of the list *)
VisitDataAttr ==
    /\ dataPc = "loop"
    /\ pos <= Len(attrList)
    /\ LET a == attrList[pos]
       IN IF a \in validAttrs
          THEN IF a \in noneAttrs
               THEN /\ warnings' = Append(warnings, a)
                    /\ UNCHANGED <<dataAttrs, written>>
               ELSE /\ dataAttrs' = dataAttrs \cup {a}
                    /\ written' = written \cup {a}
                    /\ UNCHANGED warnings
          ELSE UNCHANGED <<dataAttrs, written, warnings>>
    /\ pos' = pos + 1
    /\ UNCHANGED <<hostData, attrList, dataPc>>
    /\ UNCHANGED otherThanData

(* Line 315 *)
ReturnData ==
    /\ dataPc = "loop"
    /\ pos > Len(attrList)
    /\ dataPc' = "done"
    /\ UNCHANGED <<hostData, attrList, pos, dataAttrs, written, warnings>>
    /\ UNCHANGED otherThanData

NextData == ListAttrs \/ VisitDataAttr \/ ReturnData

DataOnly == InitData /\ IdleSave /\ IdleLoad /\ IdleWrite /\ IdleWidget

SpecData == DataOnly /\ [][NextData]_vars

Savable(a) == a \in validAttrs /\ a \notin noneAttrs

(* C10: for a blendShape node the attribute list is one alias per weight   *)
(* index 0..size-1 in index order; for any other node it is the keyable    *)
(* attributes without duplicates; data["attrs"] gains an entry only for    *)
(* an attribute that is valid and whose value is not None, and a None      *)
(* value is skipped with a warning.                                        *)
C10_AttrsFromWeights ==
    dataPc \in {"loop", "done"} =>
        /\ nodeType = BLEND_SHAPE_TYPE =>
            /\ Len(attrList) = weightSize
            /\ \A i \in 0..(weightSize - 1) : attrList[i + 1] = alias[i + 1]
        /\ nodeType # BLEND_SHAPE_TYPE =>
            /\ Range(attrList) = Range(keyable)
            /\ Len(attrList) = Cardinality(Range(keyable))
        /\ \A a \in written : a \in Range(attrList) /\ Savable(a)
        /\ dataAttrs = existing \cup written
        /\ \A a \in Range(warnings) : a \in validAttrs /\ a \in noneAttrs
        /\ dataPc = "done" =>
            /\ written = {a \in Range(attrList) : Savable(a)}
            /\ Range(warnings) =
                  {a \in Range(attrList) : a \in validAttrs /\ a \in noneAttrs}

C10_Witness ==
    /\ dataPc = "done" /\ nodeType = BLEND_SHAPE_TYPE /\ weightSize = 2
    /\ warnings # <<>> /\ written # {}
    /\ existing = {}
====
